---- MODULE Spec2Model ----
(***************************************************************************)
(* Array-backed binary heap of src/heap.rs (trait Heap, used unchanged by  *)
(* MaxHeap apart from from_vec) and src/heap/minheap.rs (MinHeap, which    *)
(* overrides push, pop, peek, len, clear and from_vec).                    *)
(*                                                                         *)
(* A Vec<T> is a TLA+ sequence; Rust index i is position i+1, and index    *)
(* arithmetic is kept zero-based as in the source.  Option<T> is a         *)
(* sequence of length at most one: None == <<>>, Some(x) == <<x>>.  Every  *)
(* method is an operator from the receiver's vector to a record            *)
(* [ret, item]: the value returned and the vector afterwards.              *)
(***************************************************************************)
EXTENDS Integers, Sequences, FiniteSets

\* ---------------------------------------------------------------- bounds
MaxVal == 2
MaxPush == 4

Values == 1..MaxVal
Kinds == {"MaxHeap", "MinHeap"}

\* ------------------------------------------------------------ Vec / Option
None == <<>>
Some(x) == <<x>>

Min2(a, b) == IF a <= b THEN a ELSE b

At(it, i) == it[i + 1]

\* a swap that copies it[j] over it[i] and never writes it[j]
Swap_overwrite(it, i, j) ==
  [k \in 1..Len(it) |-> IF k = i + 1 THEN it[j + 1] ELSE it[k]]

Swap(it, i, j) ==
  [k \in 1..Len(it) |->
     IF k = i + 1 THEN it[j + 1] ELSE IF k = j + 1 THEN it[i + 1] ELSE it[k]]

VecPop(it) == SubSeq(it, 1, Len(it) - 1)

\* ------------------------------------------------------- trait Heap (heap.rs)
Heap_new == <<>>

Heap_len(it) == Len(it)

RECURSIVE shift_down_loop(_, _, _)
shift_down_loop(ht, it, current_index) ==
  LET len == Heap_len(it)
      left_child_index == 2 * current_index + 1
      right_child_index == 2 * current_index + 2
  IN IF left_child_index >= len THEN it
     ELSE
       LET max_child_index ==
             IF right_child_index < len
             THEN IF At(it, right_child_index) <= At(it, left_child_index)
                  THEN (IF ht = "MaxHeap" THEN left_child_index
                                          ELSE right_child_index)
                  ELSE (IF ht = "MaxHeap" THEN right_child_index
                                          ELSE left_child_index)
             ELSE left_child_index
       IN IF At(it, max_child_index) <= At(it, current_index)
          THEN IF ht = "MaxHeap" THEN it
               ELSE shift_down_loop(ht, Swap(it, current_index, max_child_index),
                                    max_child_index)
          ELSE IF ht = "MaxHeap"
               THEN shift_down_loop(ht, Swap(it, current_index, max_child_index),
                                    max_child_index)
               ELSE it

shift_down(ht, it) == shift_down_loop(ht, it, 0)

RECURSIVE shift_up_loop(_, _, _)
shift_up_loop(ht, it, i) ==
  IF i > 0
  THEN LET p == IF i % 2 = 0 THEN (i - 2) \div 2 ELSE (i - 1) \div 2
           current == At(it, i)
           stop == IF ht = "MaxHeap" THEN At(it, p) >= current
                                     ELSE At(it, p) < current
       IN IF stop THEN it ELSE shift_up_loop(ht, Swap(it, p, i), p)
  ELSE it

shift_up(ht, it) == shift_up_loop(ht, it, Heap_len(it) - 1)

\* push with the early return of the empty case left out: the item is appended
\* a second time and sifted up
Heap_push_no_return(ht, it, x) ==
  LET len == Heap_len(it)
  IN IF len < 1
     THEN [ret |-> None, item |-> shift_up(ht, Append(Append(it, x), x))]
     ELSE [ret |-> None, item |-> shift_up(ht, Append(it, x))]

Heap_push(ht, it, x) ==
  LET len == Heap_len(it)
  IN IF len < 1
     THEN [ret |-> None, item |-> Append(it, x)]
     ELSE [ret |-> None, item |-> shift_up(ht, Append(it, x))]

\* pop whose one-element case clones the root without removing it
Heap_pop_keeps_last(ht, it) ==
  IF Len(it) = 0 THEN [ret |-> None, item |-> it]
  ELSE IF Len(it) = 1 THEN [ret |-> Some(it[Len(it)]), item |-> it]
  ELSE LET result == Some(At(it, 0))
           len == Heap_len(it)
       IN [ret |-> result,
           item |-> shift_down(ht, VecPop(Swap(it, 0, len - 1)))]

Heap_pop(ht, it) ==
  IF Len(it) = 0 THEN [ret |-> None, item |-> it]
  ELSE IF Len(it) = 1 THEN [ret |-> Some(it[Len(it)]), item |-> VecPop(it)]
  ELSE LET result == Some(At(it, 0))
           len == Heap_len(it)
       IN [ret |-> result,
           item |-> shift_down(ht, VecPop(Swap(it, 0, len - 1)))]

\* peek that takes the root out of the vector instead of cloning it
Heap_peek_taking(it) ==
  [ret |-> IF Len(it) = 0 THEN None ELSE Some(At(it, 0)),
   item |-> IF Len(it) = 0 THEN it ELSE Tail(it)]

Heap_peek(it) ==
  [ret |-> IF Len(it) = 0 THEN None ELSE Some(At(it, 0)), item |-> it]

\* clear that truncates to one element instead of none
Heap_clear_truncate(it) ==
  [ret |-> None, item |-> SubSeq(it, 1, Min2(1, Len(it)))]

Heap_clear(it) == [ret |-> None, item |-> <<>>]

\* --------------------------------------------------- MaxHeap (heap/maxheap.rs)
MaxHeap_new == <<>>

RECURSIVE MaxHeap_from_vec_loop(_, _)
MaxHeap_from_vec_loop(it, n) ==
  IF n = 0 THEN it
  ELSE MaxHeap_from_vec_loop(shift_down("MaxHeap", it), n - 1)

MaxHeap_from_vec(vec) == MaxHeap_from_vec_loop(vec, Len(vec))

\* --------------------------------------------------- MinHeap (heap/minheap.rs)
MinHeap_new == <<>>

MinHeap_len(it) == Len(it)

\* heapify that always takes the left child
RECURSIVE MinHeap_heapify_left_only(_, _)
MinHeap_heapify_left_only(it, root) ==
  LET len == MinHeap_len(it)
      current_index == root
      left_child_index == 2 * current_index + 1
  IN IF left_child_index >= len THEN it
     ELSE
       LET max_child_index == left_child_index
       IN IF At(it, max_child_index) <= At(it, current_index)
          THEN MinHeap_heapify_left_only(Swap(it, current_index, max_child_index),
                                         max_child_index)
          ELSE it

RECURSIVE MinHeap_heapify(_, _)
MinHeap_heapify(it, root) ==
  LET len == MinHeap_len(it)
      current_index == root
      left_child_index == 2 * current_index + 1
      right_child_index == 2 * current_index + 2
  IN IF left_child_index >= len THEN it
     ELSE
       LET max_child_index ==
             IF right_child_index < len
             THEN IF At(it, right_child_index) <= At(it, left_child_index)
                  THEN right_child_index
                  ELSE left_child_index
             ELSE left_child_index
       IN IF At(it, max_child_index) <= At(it, current_index)
          THEN MinHeap_heapify(Swap(it, current_index, max_child_index),
                               max_child_index)
          ELSE it

\* for i in (0..n).rev() { heapify(i) }
RECURSIVE MinHeap_heapify_rev(_, _)
MinHeap_heapify_rev(it, n) ==
  IF n = 0 THEN it
  ELSE MinHeap_heapify_rev(MinHeap_heapify(it, n - 1), n - 1)

MinHeap_push(it, x) ==
  LET len == MinHeap_len(it)
  IN IF len <= 1
     THEN [ret |-> None, item |-> Append(it, x)]
     ELSE [ret |-> None, item |-> MinHeap_heapify_rev(Append(it, x), len)]

MinHeap_pop(it) ==
  IF Len(it) = 0 THEN [ret |-> None, item |-> it]
  ELSE IF Len(it) = 1 THEN [ret |-> Some(it[Len(it)]), item |-> VecPop(it)]
  ELSE LET root == At(it, 0)
           len == MinHeap_len(it)
       IN [ret |-> Some(root),
           item |-> MinHeap_heapify(VecPop(Swap(it, 0, len - 1)), 0)]

MinHeap_peek(it) ==
  [ret |-> IF Len(it) = 0 THEN None ELSE Some(At(it, 0)), item |-> it]

MinHeap_clear(it) == [ret |-> None, item |-> <<>>]

MinHeap_from_vec(vec) == MinHeap_heapify_rev(vec, Len(vec))

\* ------------------------------------------------------------- tree_view
\* 1usize << i
RECURSIVE shl1(_)
shl1(i) == IF i = 0 THEN 1 ELSE 2 * shl1(i - 1)

\* usize::ilog2, for n >= 1
RECURSIVE ilog2(_)
ilog2(n) == IF n <= 1 THEN 0 ELSE 1 + ilog2(n \div 2)

\* levels_from_len that leaves out the + 1
levels_from_len_short(n) == IF n = 0 THEN 0 ELSE ilog2(n)

levels_from_len(n) == IF n = 0 THEN 0 ELSE ilog2(n) + 1

\* the bounds start..=end of level i of a heap of len elements
level_start(i) == shl1(i) - 1
level_end(i, len) == Min2(shl1(i + 1) - 2, IF len >= 1 THEN len - 1 ELSE 0)

\* What tree_view prints, as the sequence of its lines; a line is the level
\* number formatted into its label and the elements listed after it.  The
\* method returns nothing and takes &self.
Heap_tree_view(it) ==
  LET len == Heap_len(it)
      level == levels_from_len(len)
  IN [ret |-> None,
      item |-> it,
      out |-> IF len = 0 THEN <<>>
              ELSE [l \in 1..level |->
                      [label |-> Some(l - 1),
                       elems |-> [j \in 1..(level_end(l - 1, len) - level_start(l - 1) + 1)
                                    |-> At(it, level_start(l - 1) + j - 1)]]]]

\* MinHeap's own tree_view appends the literal text "L{i}: " to each line: no
\* level number is formatted into the label.
MinHeap_tree_view(it) ==
  LET len == MinHeap_len(it)
      level == levels_from_len(len)
  IN [ret |-> None,
      item |-> it,
      out |-> IF len = 0 THEN <<>>
              ELSE [l \in 1..level |->
                      [label |-> None,
                       elems |-> [j \in 1..(level_end(l - 1, len) - level_start(l - 1) + 1)
                                    |-> At(it, level_start(l - 1) + j - 1)]]]]

\* ------------------------------------------------------------- panics
\* For each method, whether the call panics: a Vec index outside 0..len-1 or
\* a usize subtraction below zero.  Each operator follows the accesses and
\* subtractions of its method in the order the method makes them.
InRange(it, i) == 0 <= i /\ i < Len(it)

RECURSIVE shift_down_faults(_, _, _)
shift_down_faults(ht, it, current_index) ==
  LET len == Heap_len(it)
      left_child_index == 2 * current_index + 1
      right_child_index == 2 * current_index + 2
  IN IF left_child_index >= len THEN FALSE
     ELSE
       LET max_child_index ==
             IF right_child_index < len
             THEN IF At(it, right_child_index) <= At(it, left_child_index)
                  THEN (IF ht = "MaxHeap" THEN left_child_index
                                          ELSE right_child_index)
                  ELSE (IF ht = "MaxHeap" THEN right_child_index
                                          ELSE left_child_index)
             ELSE left_child_index
           swaps == IF At(it, max_child_index) <= At(it, current_index)
                    THEN ht # "MaxHeap" ELSE ht = "MaxHeap"
       IN \/ ~InRange(it, left_child_index)
          \/ ~InRange(it, current_index)
          \/ swaps /\ shift_down_faults(ht, Swap(it, current_index, max_child_index),
                                        max_child_index)

\* shift_up that takes (i - 2) / 2 as the parent of every index
RECURSIVE shift_up_loop_faults_even_parent(_, _, _)
shift_up_loop_faults_even_parent(ht, it, i) ==
  IF i > 0
  THEN LET p == (i - 2) \div 2
           stop == IF ht = "MaxHeap" THEN At(it, p) >= At(it, i)
                                     ELSE At(it, p) < At(it, i)
       IN \/ i - 2 < 0
          \/ ~InRange(it, i)
          \/ ~InRange(it, p)
          \/ ~stop /\ shift_up_loop_faults_even_parent(ht, Swap(it, p, i), p)
  ELSE FALSE

RECURSIVE shift_up_loop_faults(_, _, _)
shift_up_loop_faults(ht, it, i) ==
  IF i > 0
  THEN LET p == IF i % 2 = 0 THEN (i - 2) \div 2 ELSE (i - 1) \div 2
           stop == IF ht = "MaxHeap" THEN At(it, p) >= At(it, i)
                                     ELSE At(it, p) < At(it, i)
       IN \/ (IF i % 2 = 0 THEN i - 2 < 0 ELSE i - 1 < 0)
          \/ ~InRange(it, i)
          \/ ~InRange(it, p)
          \/ ~stop /\ shift_up_loop_faults(ht, Swap(it, p, i), p)
  ELSE FALSE

shift_up_faults(ht, it) ==
  \/ Heap_len(it) - 1 < 0
  \/ shift_up_loop_faults(ht, it, Heap_len(it) - 1)

Heap_push_faults(ht, it, x) ==
  LET len == Heap_len(it)
  IN IF len < 1 THEN FALSE ELSE shift_up_faults(ht, Append(it, x))

Heap_pop_faults(ht, it) ==
  IF Len(it) = 0 THEN FALSE
  ELSE IF Len(it) = 1 THEN FALSE
  ELSE LET len == Heap_len(it)
       IN \/ ~InRange(it, 0)
          \/ len - 1 < 0
          \/ ~InRange(it, len - 1)
          \/ shift_down_faults(ht, VecPop(Swap(it, 0, len - 1)), 0)

RECURSIVE MaxHeap_from_vec_faults_loop(_, _)
MaxHeap_from_vec_faults_loop(it, n) ==
  IF n = 0 THEN FALSE
  ELSE \/ shift_down_faults("MaxHeap", it, 0)
       \/ MaxHeap_from_vec_faults_loop(shift_down("MaxHeap", it), n - 1)

MaxHeap_from_vec_faults(vec) == MaxHeap_from_vec_faults_loop(vec, Len(vec))

RECURSIVE MinHeap_heapify_faults(_, _)
MinHeap_heapify_faults(it, root) ==
  LET len == MinHeap_len(it)
      current_index == root
      left_child_index == 2 * current_index + 1
      right_child_index == 2 * current_index + 2
  IN IF left_child_index >= len THEN FALSE
     ELSE
       LET max_child_index ==
             IF right_child_index < len
             THEN IF At(it, right_child_index) <= At(it, left_child_index)
                  THEN right_child_index
                  ELSE left_child_index
             ELSE left_child_index
       IN \/ ~InRange(it, left_child_index)
          \/ ~InRange(it, current_index)
          \/ /\ At(it, max_child_index) <= At(it, current_index)
             /\ MinHeap_heapify_faults(Swap(it, current_index, max_child_index),
                                       max_child_index)

RECURSIVE MinHeap_heapify_rev_faults(_, _)
MinHeap_heapify_rev_faults(it, n) ==
  IF n = 0 THEN FALSE
  ELSE \/ MinHeap_heapify_faults(it, n - 1)
       \/ MinHeap_heapify_rev_faults(MinHeap_heapify(it, n - 1), n - 1)

MinHeap_push_faults(it, x) ==
  LET len == MinHeap_len(it)
  IN IF len <= 1 THEN FALSE
     ELSE MinHeap_heapify_rev_faults(Append(it, x), len)

MinHeap_pop_faults(it) ==
  IF Len(it) = 0 THEN FALSE
  ELSE IF Len(it) = 1 THEN FALSE
  ELSE LET len == MinHeap_len(it)
       IN \/ ~InRange(it, 0)
          \/ len - 1 < 0
          \/ ~InRange(it, len - 1)
          \/ MinHeap_heapify_faults(VecPop(Swap(it, 0, len - 1)), 0)

MinHeap_from_vec_faults(vec) == MinHeap_heapify_rev_faults(vec, Len(vec))

\* both tree_view methods index the same ranges
tree_view_faults(it) ==
  LET len == Len(it)
      level == levels_from_len(len)
  IN IF len = 0 THEN FALSE
     ELSE \E i \in 0..(level - 1) :
            \/ shl1(i) - 1 < 0
            \/ shl1(i + 1) - 2 < 0
            \/ \E j \in level_start(i)..level_end(i, len) : ~InRange(it, j)

\* ------------------------------------------------------------- swaps
\* For each method, the Vec::swap calls it makes, in order: the two indices
\* (parent, child) and the vector as it was just before the swap.
SwapEvent(it, p, c) == [parent |-> p, child |-> c, before |-> it]

RECURSIVE shift_down_swaps(_, _, _)
shift_down_swaps(ht, it, current_index) ==
  LET len == Heap_len(it)
      left_child_index == 2 * current_index + 1
      right_child_index == 2 * current_index + 2
  IN IF left_child_index >= len THEN <<>>
     ELSE
       LET max_child_index ==
             IF right_child_index < len
             THEN IF At(it, right_child_index) <= At(it, left_child_index)
                  THEN (IF ht = "MaxHeap" THEN left_child_index
                                          ELSE right_child_index)
                  ELSE (IF ht = "MaxHeap" THEN right_child_index
                                          ELSE left_child_index)
             ELSE left_child_index
           swaps == IF At(it, max_child_index) <= At(it, current_index)
                    THEN ht # "MaxHeap" ELSE ht = "MaxHeap"
       IN IF swaps
          THEN <<SwapEvent(it, current_index, max_child_index)>>
               \o shift_down_swaps(ht, Swap(it, current_index, max_child_index),
                                   max_child_index)
          ELSE <<>>

RECURSIVE shift_up_swaps(_, _, _)
shift_up_swaps(ht, it, i) ==
  IF i > 0
  THEN LET p == IF i % 2 = 0 THEN (i - 2) \div 2 ELSE (i - 1) \div 2
           current == At(it, i)
           stop == IF ht = "MaxHeap" THEN At(it, p) >= current
                                     ELSE At(it, p) < current
       IN IF stop THEN <<>>
          ELSE <<SwapEvent(it, p, i)>> \o shift_up_swaps(ht, Swap(it, p, i), p)
  ELSE <<>>

Heap_push_swaps(ht, it, x) ==
  LET len == Heap_len(it)
  IN IF len < 1 THEN <<>>
     ELSE shift_up_swaps(ht, Append(it, x), Heap_len(Append(it, x)) - 1)

\* pop's own swap(0, len - 1) moves the root out and is not part of the sift
Heap_pop_swaps(ht, it) ==
  IF Len(it) = 0 THEN <<>>
  ELSE IF Len(it) = 1 THEN <<>>
  ELSE LET len == Heap_len(it)
       IN shift_down_swaps(ht, VecPop(Swap(it, 0, len - 1)), 0)

RECURSIVE MinHeap_heapify_swaps(_, _)
MinHeap_heapify_swaps(it, root) ==
  LET len == MinHeap_len(it)
      current_index == root
      left_child_index == 2 * current_index + 1
      right_child_index == 2 * current_index + 2
  IN IF left_child_index >= len THEN <<>>
     ELSE
       LET max_child_index ==
             IF right_child_index < len
             THEN IF At(it, right_child_index) <= At(it, left_child_index)
                  THEN right_child_index
                  ELSE left_child_index
             ELSE left_child_index
       IN IF At(it, max_child_index) <= At(it, current_index)
          THEN <<SwapEvent(it, current_index, max_child_index)>>
               \o MinHeap_heapify_swaps(Swap(it, current_index, max_child_index),
                                        max_child_index)
          ELSE <<>>

RECURSIVE MinHeap_heapify_rev_swaps(_, _)
MinHeap_heapify_rev_swaps(it, n) ==
  IF n = 0 THEN <<>>
  ELSE MinHeap_heapify_swaps(it, n - 1)
       \o MinHeap_heapify_rev_swaps(MinHeap_heapify(it, n - 1), n - 1)

MinHeap_push_swaps(it, x) ==
  LET len == MinHeap_len(it)
  IN IF len <= 1 THEN <<>>
     ELSE MinHeap_heapify_rev_swaps(Append(it, x), len)

MinHeap_pop_swaps(it) ==
  IF Len(it) = 0 THEN <<>>
  ELSE IF Len(it) = 1 THEN <<>>
  ELSE LET len == MinHeap_len(it)
       IN MinHeap_heapify_swaps(VecPop(Swap(it, 0, len - 1)), 0)

\* ------------------------------------------- method resolution per variant
new(k) == IF k = "MaxHeap" THEN MaxHeap_new ELSE MinHeap_new
push(k, it, x) == IF k = "MaxHeap" THEN Heap_push(k, it, x) ELSE MinHeap_push(it, x)
pop(k, it) == IF k = "MaxHeap" THEN Heap_pop(k, it) ELSE MinHeap_pop(it)
peek(k, it) == IF k = "MaxHeap" THEN Heap_peek(it) ELSE MinHeap_peek(it)
len(k, it) == IF k = "MaxHeap" THEN Heap_len(it) ELSE MinHeap_len(it)
is_empty(k, it) == len(k, it) = 0
clear(k, it) == IF k = "MaxHeap" THEN Heap_clear(it) ELSE MinHeap_clear(it)
from_vec(k, vec) == IF k = "MaxHeap" THEN MaxHeap_from_vec(vec) ELSE MinHeap_from_vec(vec)
tree_view(k, it) == IF k = "MaxHeap" THEN Heap_tree_view(it) ELSE MinHeap_tree_view(it)
push_faults(k, it, x) == IF k = "MaxHeap" THEN Heap_push_faults(k, it, x) ELSE MinHeap_push_faults(it, x)
pop_faults(k, it) == IF k = "MaxHeap" THEN Heap_pop_faults(k, it) ELSE MinHeap_pop_faults(it)
from_vec_faults(k, vec) == IF k = "MaxHeap" THEN MaxHeap_from_vec_faults(vec) ELSE MinHeap_from_vec_faults(vec)
push_swaps(k, it, x) == IF k = "MaxHeap" THEN Heap_push_swaps(k, it, x) ELSE MinHeap_push_swaps(it, x)
pop_swaps(k, it) == IF k = "MaxHeap" THEN Heap_pop_swaps(k, it) ELSE MinHeap_pop_swaps(it)


\* The trait's default from_vec, which both variants override: a fresh heap
\* and one push (the variant's own) per element.
RECURSIVE Heap_from_vec_loop(_, _, _)
Heap_from_vec_loop(k, init, vec) ==
  IF vec = <<>> THEN init
  ELSE Heap_from_vec_loop(k, push(k, init, Head(vec)).item, Tail(vec))

Heap_from_vec(k, vec) == Heap_from_vec_loop(k, new(k), vec)

\* while let Some(x) = h.pop() { popped.push(x) }
RECURSIVE drain(_, _)
drain(k, it) ==
  LET r == pop(k, it)
  IN IF r.ret = None THEN <<>> ELSE r.ret \o drain(k, r.item)

\* ------------------------------------------------------------------ state
VARIABLES
  kind,     \* which variant the heap under observation is
  item,     \* its backing Vec
  op,       \* the method called last
  arg,      \* the scalar argument of that call: Some(x) for push(x)
  ret,      \* what that call returned
  prev,     \* item as it was when that call was made
  origin,   \* how the current contents began: "new", "clear" or "from_vec"
  pushed,   \* values pushed (or handed to from_vec) since then, in order
  popped,   \* values pop() returned since then, in order
  phase,    \* "fill": only pushes so far; "drain": pushes, then only pops;
            \* "refill": pushes onto the heap those pops emptied; "redrain":
            \* only pops after that; "mixed": any other push after a pop
  fresh,    \* a second heap, made by new() when this one was made or cleared,
            \* given the same calls since
  dual,     \* a heap of the other variant, given the same calls with every
            \* value replaced by its mirror image
  dualRet   \* what the last call on dual returned

vars == <<kind, item, op, arg, ret, prev, origin, pushed, popped, phase, fresh,
          dual, dualRet>>

Vecs == UNION {[1..n -> Values] : n \in 0..MaxPush}

Other(k) == IF k = "MaxHeap" THEN "MinHeap" ELSE "MaxHeap"

\* the order-reversing map on Values, and on Option and Vec of them
Mirror(v) == MaxVal + 1 - v
MirrorSeq(s) == [i \in 1..Len(s) |-> Mirror(s[i])]

Init ==
  /\ kind \in Kinds
  /\ item = new(kind)
  /\ op = "new"
  /\ arg = None
  /\ ret = None
  /\ prev = <<>>
  /\ origin = "new"
  /\ pushed = <<>>
  /\ popped = <<>>
  /\ phase = "fill"
  /\ fresh = new(kind)
  /\ dual = new(Other(kind))
  /\ dualRet = None

\* new() and from_vec() are associated functions without a receiver: the heap
\* under observation is dropped and a newly constructed one takes its place.
New ==
  /\ item' = new(kind)
  /\ op' = "new"
  /\ arg' = None
  /\ ret' = None
  /\ prev' = <<>>
  /\ origin' = "new"
  /\ pushed' = <<>>
  /\ popped' = <<>>
  /\ phase' = "fill"
  /\ fresh' = new(kind)
  /\ dual' = new(Other(kind))
  /\ dualRet' = None
  /\ UNCHANGED kind

\* from_vec(vec) is called where a heap is constructed, in place of new().
FromVec ==
  /\ op = "new"
  /\ \E vec \in Vecs :
    /\ item' = from_vec(kind, vec)
    /\ op' = "from_vec"
    /\ arg' = None
    /\ ret' = None
    /\ prev' = vec
    /\ origin' = "from_vec"
    /\ pushed' = vec
    /\ popped' = <<>>
    /\ phase' = "fill"
    /\ fresh' = from_vec(kind, vec)
    /\ dual' = from_vec(Other(kind), MirrorSeq(vec))
    /\ dualRet' = None
    /\ UNCHANGED kind

Push ==
  \E x \in Values :
    /\ Len(pushed) < MaxPush
    /\ item' = push(kind, item, x).item
    /\ op' = "push"
    /\ arg' = Some(x)
    /\ ret' = push(kind, item, x).ret
    /\ prev' = item
    /\ pushed' = Append(pushed, x)
    /\ phase' = IF phase = "fill" THEN "fill"
                ELSE IF \/ phase = "refill"
                        \/ /\ phase \in {"drain", "redrain"}
                           /\ item = <<>>
                           /\ popped # <<>>
                     THEN "refill"
                     ELSE "mixed"
    /\ fresh' = push(kind, fresh, x).item
    /\ dual' = push(Other(kind), dual, Mirror(x)).item
    /\ dualRet' = push(Other(kind), dual, Mirror(x)).ret
    /\ UNCHANGED <<kind, origin, popped>>

Pop ==
  /\ item' = pop(kind, item).item
  /\ op' = "pop"
  /\ arg' = None
  /\ ret' = pop(kind, item).ret
  /\ prev' = item
  /\ popped' = popped \o pop(kind, item).ret
  /\ phase' = IF phase = "mixed" THEN "mixed"
              ELSE IF phase \in {"refill", "redrain"} THEN "redrain"
              ELSE "drain"
  /\ fresh' = pop(kind, fresh).item
  /\ dual' = pop(Other(kind), dual).item
  /\ dualRet' = pop(Other(kind), dual).ret
  /\ UNCHANGED <<kind, origin, pushed>>

Peek ==
  /\ item' = peek(kind, item).item
  /\ op' = "peek"
  /\ arg' = None
  /\ ret' = peek(kind, item).ret
  /\ prev' = item
  /\ fresh' = peek(kind, fresh).item
  /\ dual' = peek(Other(kind), dual).item
  /\ dualRet' = peek(Other(kind), dual).ret
  /\ UNCHANGED <<kind, origin, pushed, popped, phase>>

Clear ==
  /\ item' = clear(kind, item).item
  /\ op' = "clear"
  /\ arg' = None
  /\ ret' = clear(kind, item).ret
  /\ prev' = item
  /\ origin' = "clear"
  /\ pushed' = <<>>
  /\ popped' = <<>>
  /\ phase' = "fill"
  /\ fresh' = new(kind)
  /\ dual' = clear(Other(kind), dual).item
  /\ dualRet' = clear(Other(kind), dual).ret
  /\ UNCHANGED kind

TreeView ==
  /\ item' = tree_view(kind, item).item
  /\ op' = "tree_view"
  /\ arg' = None
  /\ ret' = tree_view(kind, item).ret
  /\ prev' = item
  /\ fresh' = tree_view(kind, fresh).item
  /\ dual' = tree_view(Other(kind), dual).item
  /\ dualRet' = tree_view(Other(kind), dual).ret
  /\ UNCHANGED <<kind, origin, pushed, popped, phase>>

Next == New \/ FromVec \/ Push \/ Pop \/ Peek \/ Clear \/ TreeView

Spec == Init /\ [][Next]_vars

\* ------------------------------------------------ sift-down on any vector
\* The sift-down as a function of an arbitrary vector: the vector is drawn
\* from Vecs, and the sift-down or a pop is applied to it.
InitSift ==
  /\ kind \in Kinds
  /\ item \in Vecs
  /\ op = "input"
  /\ arg = None
  /\ ret = None
  /\ prev = <<>>
  /\ origin = "input"
  /\ pushed = <<>>
  /\ popped = <<>>
  /\ phase = "fill"
  /\ fresh = <<>>
  /\ dual = <<>>
  /\ dualRet = None

ShiftDown ==
  /\ item' = shift_down(kind, item)
  /\ op' = "shift_down"
  /\ arg' = Some(0)
  /\ ret' = None
  /\ prev' = item
  /\ UNCHANGED <<kind, origin, pushed, popped, phase, fresh, dual, dualRet>>

Heapify ==
  /\ kind = "MinHeap"
  /\ \E root \in 0..(IF Len(item) = 0 THEN 0 ELSE Len(item) - 1) :
       /\ item' = MinHeap_heapify(item, root)
       /\ arg' = Some(root)
  /\ op' = "heapify"
  /\ ret' = None
  /\ prev' = item
  /\ UNCHANGED <<kind, origin, pushed, popped, phase, fresh, dual, dualRet>>

NextSift == ShiftDown \/ Heapify \/ Pop

SiftSpec == InitSift /\ [][NextSift]_vars

\* ------------------------------------------------- vocabulary of the claims
\* a parent value p dominates a child value c
Dominates(k, p, c) == IF k = "MaxHeap" THEN p >= c ELSE p <= c

HeapProperty(k, it) ==
  \A i \in 0..(Len(it) - 1) :
    \A c \in {2 * i + 1, 2 * i + 2} :
      c < Len(it) => Dominates(k, At(it, i), At(it, c))

Count(s, v) == Cardinality({i \in 1..Len(s) : s[i] = v})

SameBag(s, t) == \A v \in Values : Count(s, v) = Count(t, v)

\* t holds what s holds, less one occurrence of x
LessOne(s, t, x) ==
  \A v \in Values : Count(t, v) = Count(s, v) - (IF v = x THEN 1 ELSE 0)

\* the maximum (MaxHeap) or minimum (MinHeap) of a non-empty vector
Best(k, it) ==
  CHOOSE v \in {it[i] : i \in 1..Len(it)} :
    \A i \in 1..Len(it) : Dominates(k, v, it[i])

\* non-increasing for MaxHeap, non-decreasing for MinHeap
InOrder(k, s) ==
  \A i \in 1..(Len(s) - 1) : Dominates(k, s[i], s[i + 1])

\* ------------------------------------------------------------------ claims

\* C1: starting from new(), after every push and pop, on both variants, each
\* parent dominates each of its existing children.
C1_HeapPropertyInvariant ==
  origin = "new" => HeapProperty(kind, item)

\* C2: pop() on a non-empty heap returns the maximum (MaxHeap) or minimum
\* (MinHeap) of what the heap held, and removes exactly one occurrence of it.
C2_PopReturnsBest ==
  (op = "pop" /\ prev # <<>> /\ origin # "from_vec") =>
    /\ ret = Some(Best(kind, prev))
    /\ LessOne(prev, item, ret[1])

\* C3: values pushed in any order into a fresh heap and then popped until
\* pop() returns None come out each as often as pushed, non-increasing for
\* MaxHeap and non-decreasing for MinHeap, and the heap is empty afterwards.
C3_SortOrderExtraction ==
  (origin = "new" /\ phase = "drain" /\ op = "pop" /\ ret = None) =>
    /\ SameBag(popped, pushed)
    /\ Len(popped) = Len(pushed)
    /\ InOrder(kind, popped)
    /\ is_empty(kind, item)

\* C4: peek() on a non-empty heap returns the maximum (MaxHeap) or minimum
\* (MinHeap) of the contents, the value an immediately following pop()
\* returns; on an empty heap it returns None.
C4_PeekReturnsBest ==
  (op = "peek" /\ origin # "from_vec") =>
    IF prev = <<>>
    THEN ret = None
    ELSE /\ ret = Some(Best(kind, prev))
         /\ ret = pop(kind, item).ret

\* C5: peek() leaves the backing array, len() and is_empty() as they were, so
\* the values later pops return are those they would have returned without it.
C5_PeekLeavesHeapUnchanged ==
  op = "peek" =>
    /\ item = prev
    /\ len(kind, item) = len(kind, prev)
    /\ is_empty(kind, item) = is_empty(kind, prev)
    /\ drain(kind, item) = drain(kind, prev)

C5_Witness ==
  op = "peek" /\ Len(prev) >= 2 /\ ret # None

\* C6: on a heap just made by new(), or drained by as many pops as there were
\* pushes, peek() and pop() return None, len() is 0 and is_empty() is true;
\* a pop() on the empty heap returns None and leaves it empty.
C6_EmptyHeapContract ==
  /\ (origin = "new" /\ Len(popped) = Len(pushed)) =>
       /\ peek(kind, item).ret = None
       /\ pop(kind, item).ret = None
       /\ pop(kind, item).item = item
       /\ len(kind, item) = 0
       /\ is_empty(kind, item)
  /\ (op = "pop" /\ prev = <<>>) => (ret = None /\ item = <<>>)

C6_Witness ==
  /\ origin = "new"
  /\ Len(pushed) >= 2
  /\ Len(popped) = Len(pushed)
  /\ op = "pop"
  /\ prev = <<>>
  /\ ret = None

\* C7: from new(), without clear, after n pushes and m pops that returned a
\* value len() is n - m: a push adds one, a pop on a non-empty heap takes one
\* away, a pop on an empty heap leaves 0; is_empty() is len() = 0.
C7_SizeAccounting ==
  origin = "new" =>
    /\ len(kind, item) = Len(pushed) - Len(popped)
    /\ is_empty(kind, item) <=> (len(kind, item) = 0)
    /\ op = "push" => len(kind, item) = len(kind, prev) + 1
    /\ (op = "pop" /\ prev # <<>>) => len(kind, item) = len(kind, prev) - 1
    /\ (op = "pop" /\ prev = <<>>) => len(kind, item) = 0

C7_Witness ==
  /\ origin = "new"
  /\ phase = "mixed"
  /\ Len(pushed) >= 3
  /\ Len(popped) >= 1
  /\ len(kind, item) >= 2

\* C8: after clear() the heap is as new() makes it: len() is 0, peek() and
\* pop() return None, and under every later sequence of calls it stays equal
\* to a heap made by new() and given the same calls.
C8_ClearResetsFully ==
  /\ op = "clear" =>
       /\ item = new(kind)
       /\ len(kind, item) = 0
       /\ peek(kind, item).ret = None
       /\ pop(kind, item).ret = None
  /\ origin = "clear" => item = fresh

C8_Witness ==
  op = "clear" /\ Len(prev) >= 2 /\ item = <<>>

\* C9: from_vec(v), on both variants, holds exactly the values of v and
\* satisfies the heap property at every parent/child pair.
C9_FromVecBuildsHeap ==
  op = "from_vec" =>
    /\ SameBag(item, prev)
    /\ Len(item) = Len(prev)
    /\ HeapProperty(kind, item)

\* C10: draining from_vec(v) gives the sequence that draining a fresh heap of
\* the same variant gives after each element of v was pushed into it.
C10_FromVecRoundTrip ==
  op = "from_vec" =>
    drain(kind, item) = drain(kind, Heap_from_vec(kind, prev))

\* floor(log2(n)) for n >= 1, from its defining inequality
FloorLog2(n) == CHOOSE k \in 0..n : 2^k <= n /\ n < 2^(k + 1)

RECURSIVE Concat(_)
Concat(ss) == IF ss = <<>> THEN <<>> ELSE Head(ss) \o Concat(Tail(ss))

\* C11: in every reachable state no call of push, pop, tree_view or from_vec
\* indexes outside 0..len-1 or subtracts below zero (peek, len, is_empty,
\* clear and new index nothing), so no operation panics.
C11_NoOperationFaults ==
  /\ \A x \in Values : ~push_faults(kind, item, x)
  /\ ~pop_faults(kind, item)
  /\ ~tree_view_faults(item)
  /\ op = "new" => \A vec \in Vecs : ~from_vec_faults(kind, vec)

C11_Witness ==
  op = "pop" /\ Len(prev) >= 4 /\ ~pop_faults(kind, prev)

\* C18: tree_view() leaves the heap unchanged; it prints nothing for an empty
\* heap and otherwise floor(log2(n)) + 1 levels, level k holding the elements
\* at indices 2^k - 1 .. min(2^(k+1) - 2, n - 1) in increasing order, so that
\* every index is listed once and no level is empty.
C18_TreeViewLevels ==
  LET v == tree_view(kind, item)
      n == Len(item)
  IN /\ v.item = item
     /\ op = "tree_view" => item = prev
     /\ n = 0 => v.out = <<>>
     /\ n >= 1 =>
          /\ Len(v.out) = FloorLog2(n) + 1
          /\ \A l \in 1..Len(v.out) :
               /\ v.out[l].elems = SubSeq(item, 2^(l - 1), Min2(2^l - 1, n))
               /\ v.out[l].elems # <<>>
          /\ Concat([l \in 1..Len(v.out) |-> v.out[l].elems]) = item

C18_Witness ==
  op = "tree_view" /\ Len(item) >= 4

\* C19: after any pushes, pops and clears the array holds exactly the values
\* pushed since the last clear (or new()) less those pop returned since; a
\* push only adds its value, a pop only removes the value it returns, and
\* that value was in the heap.
C19_MultisetConservation ==
  origin # "from_vec" =>
    /\ \A v \in Values : Count(item, v) = Count(pushed, v) - Count(popped, v)
    /\ op = "push" => SameBag(item, Append(prev, arg[1]))
    /\ (op = "pop" /\ ret # None) =>
         (Count(prev, ret[1]) >= 1 /\ LessOne(prev, item, ret[1]))
    /\ (op = "pop" /\ ret = None) => item = prev

C19_Witness ==
  /\ origin = "clear"
  /\ op = "pop"
  /\ Len(prev) >= 3
  /\ Len(popped) >= 2
  /\ \E i, j \in 1..Len(prev) : prev[i] # prev[j]

\* a child value c strictly dominates its parent value p
StrictlyAbove(k, c, p) == IF k = "MaxHeap" THEN c > p ELSE c < p

TieFree(k, events) ==
  \A n \in 1..Len(events) :
    StrictlyAbove(k, At(events[n].before, events[n].child),
                     At(events[n].before, events[n].parent))

\* a push that always appends and then runs the general sift-up from the new
\* leaf, with no special case for short heaps
general_push(k, it, x) == shift_up(k, Append(it, x))

\* C12: the same calls on a MinHeap and, with every value mirrored, on a
\* MaxHeap give the same len() after every step and pop/peek results that are
\* mirror images of each other.
C12_MaxMinDuality ==
  origin # "from_vec" =>
    /\ len(kind, item) = len(Other(kind), dual)
    /\ op \in {"pop", "peek"} => ret = MirrorSeq(dualRet)

\* C13: the heap is Empty exactly when len is 0; push always leads to
\* Non-Empty; only pop from length 1 and clear lead from Non-Empty to Empty;
\* push and pop stay enabled in every state; a heap drained to empty and
\* refilled is the heap new() and the same pushes give, and returns the
\* refilled values correctly.
C13_Lifecycle ==
  /\ is_empty(kind, item) <=> (len(kind, item) = 0)
  /\ op = "push" => ~is_empty(kind, item)
  /\ (prev # <<>> /\ item = <<>>) =>
       (op = "clear" \/ (op = "pop" /\ Len(prev) = 1))
  /\ ENABLED Pop
  /\ Len(pushed) < MaxPush => ENABLED Push
  /\ (origin # "from_vec" /\ phase = "refill") =>
       item = Heap_from_vec(kind, SubSeq(pushed, Len(popped) + 1, Len(pushed)))
  /\ (origin # "from_vec" /\ phase = "redrain" /\ op = "pop" /\ prev # <<>>) =>
       ret = Some(Best(kind, prev))

\* C14: on both variants the sift of a push swaps the new element with its
\* parent only when it strictly dominates the parent, and the sift of a pop
\* swaps a node with its chosen child only when the child strictly dominates
\* it; pushing a value equal to its parent leaves every stored element at its
\* index.
C14_TiesNeverMove ==
  origin # "from_vec" =>
    /\ op = "push" => TieFree(kind, push_swaps(kind, prev, arg[1]))
    /\ op = "pop" => TieFree(kind, pop_swaps(kind, prev))
    /\ (op = "push" /\ prev # <<>>
          /\ arg[1] = At(prev, (Len(prev) - 1) \div 2)) =>
         item = Append(prev, arg[1])

\* C15: for every a and b, pushing a then b into a fresh heap leaves a heap
\* with the heap property that gives the peek/pop results of a heap built by
\* the general push, on both variants.
C15_SmallHeapSpecialCase ==
  (origin = "new" /\ op = "push" /\ Len(pushed) = 2 /\ popped = <<>>) =>
    LET ref == general_push(kind, general_push(kind, new(kind), pushed[1]),
                            pushed[2])
    IN /\ HeapProperty(kind, item)
       /\ peek(kind, item).ret = peek(kind, ref).ret
       /\ drain(kind, item) = drain(kind, ref)

\* C16: a push that leaves n elements makes at most floor(log2(n)) swaps, and
\* so does a pop that leaves n >= 1 elements, whose sift moves strictly
\* toward the leaves; on both variants.
C16_SwapsBoundedByHeight ==
  origin # "from_vec" =>
    /\ op = "push" =>
         Len(push_swaps(kind, prev, arg[1])) <= FloorLog2(Len(item))
    /\ (op = "pop" /\ Len(item) >= 1) =>
         LET ev == pop_swaps(kind, prev)
         IN /\ Len(ev) <= FloorLog2(Len(item))
            /\ \A n \in 1..Len(ev) : ev[n].child > ev[n].parent
            /\ \A n \in 1..(Len(ev) - 1) : ev[n + 1].parent = ev[n].child

RECURSIVE InSubtree(_, _)
InSubtree(i, root) ==
  IF i = root THEN TRUE
  ELSE IF i < root THEN FALSE
  ELSE InSubtree((i - 1) \div 2, root)

\* the heap property at every parent/child pair whose parent is not root
HeapBelow(k, it, root) ==
  \A i \in 0..(Len(it) - 1) :
    \A c \in {2 * i + 1, 2 * i + 2} :
      (c < Len(it) /\ i # root) => Dominates(k, At(it, i), At(it, c))

\* the heap property at every pair inside the subtree rooted at root
SubtreeHeap(k, it, root) ==
  \A i \in 0..(Len(it) - 1) :
    \A c \in {2 * i + 1, 2 * i + 2} :
      (c < Len(it) /\ InSubtree(i, root)) => Dominates(k, At(it, i), At(it, c))

\* every swap took the only child, or the child that dominates its sibling
ChoseDominantChild(k, events) ==
  \A n \in 1..Len(events) :
    LET e == events[n]
        sibling == IF e.child = 2 * e.parent + 1 THEN 2 * e.parent + 2
                                                 ELSE 2 * e.parent + 1
    IN /\ e.child \in {2 * e.parent + 1, 2 * e.parent + 2}
       /\ sibling < Len(e.before) =>
            Dominates(k, At(e.before, e.child), At(e.before, sibling))

\* C17: on any vector whose parent/child pairs all satisfy the heap property
\* except perhaps those of the start node, sift-down from that node ends with
\* the heap property in the whole subtree of that node, having moved only
\* elements of the subtree and taken at each step the dominating child; a
\* pop of a heap leaves a heap.
C17_SiftDownCorrect ==
  /\ (op \in {"shift_down", "heapify"} /\ HeapBelow(kind, prev, arg[1])) =>
       /\ SubtreeHeap(kind, item, arg[1])
       /\ SameBag(item, prev)
       /\ \A i \in 0..(Len(prev) - 1) :
            ~InSubtree(i, arg[1]) => At(item, i) = At(prev, i)
       /\ ChoseDominantChild(kind,
            IF op = "shift_down" THEN shift_down_swaps(kind, prev, 0)
                                 ELSE MinHeap_heapify_swaps(prev, arg[1]))
  /\ (op = "pop" /\ HeapProperty(kind, prev)) => HeapProperty(kind, item)

C17_Witness ==
  /\ op = "heapify"
  /\ arg # Some(0)
  /\ HeapBelow(kind, prev, arg[1])
  /\ ~SubtreeHeap(kind, prev, arg[1])
  /\ Len(MinHeap_heapify_swaps(prev, arg[1])) >= 1

====
